---- MODULE Spec2Model ----
(***************************************************************************)
(* Farmers 10 backend (src/backend/server.js): demo login and token        *)
(* verification, role guard, in-memory order store, socket.io rooms and    *)
(* event emission.  The clock `now` counts ticks of TickMs milliseconds     *)
(* (a token lives TicksPerTTL ticks); jsonwebtoken works in seconds.       *)
(***************************************************************************)
EXTENDS Integers, Sequences, FiniteSets, TLC

VARIABLES
  now,          \* the wall clock, in ticks of TickMs milliseconds
  wallet,       \* per client: the token the last successful demo-login returned
  demoOrders,   \* let demoOrders = []  (server.js:83)
  conn,         \* per socket: connected flag and the rooms it joined
  lastEmit,     \* the most recent event handed to socket.io, with its receivers
  resp,         \* the most recent HTTP exchange: request credential and response
  demoLeads,    \* let demoLeads = []  (server.js:84)
  inflight,     \* 'order-update' messages received from sockets and not yet dispatched
  handled,      \* the 'order-update' messages dispatched so far, in dispatch order
  proc,         \* the node process: "running" or "crashed"
  jobs,         \* per cron job: whether cron.schedule registered it, and its last run
  env           \* process.env: the job toggles read once at startup

vars == <<now, wallet, demoOrders, conn, lastEmit, resp, demoLeads, inflight, handled,
          proc, jobs, env>>

\* What the HTTP and socket handlers of the first part never touch.
background == <<demoLeads, inflight, handled, proc, jobs, env>>

----
\* Bounds of the model.
MaxTime == 1
AuthMaxTime == 3
MaxOrders == 1
TicksPerTTL == 2
MaxFailures == 1
MaxLeads == 2
MaxUpdates == 2
MaxStored == 2

\* Program constants.
MsPerDay == 86400000
TokenTTLDays == 7
OrderDigitsMod == 1000000

Clients == {"c1", "c2"}
Sockets == {"s1", "s2"}

Undefined == "undefined"
Broadcast == "*"
JWT_SECRET == "farmers10_secret"
OtherSecret == "not_the_secret"

validRoles == {"customer", "farmer", "admin", "logistics"}

OrderStatuses == {"placed", "confirmed", "processing", "shipped", "delivered", "cancelled"}

\* One tick of the clock, in milliseconds.
TickMs == (TokenTTLDays * MsPerDay) \div TicksPerTTL

\* Date.now() in milliseconds, and jsonwebtoken's clock in seconds.
DateNow(t) == t * TickMs
ClockTimestamp(t) == DateNow(t) \div 1000

----
\* Tokens and the Authorization header.

NoToken ==
  [fmt |-> "none", userId |-> Undefined, role |-> Undefined, name |-> Undefined,
   email |-> Undefined, iat |-> 0, exp |-> 0, sig |-> "none"]

Garbage == [NoToken EXCEPT !.fmt = "garbage"]

NoUser == [id |-> Undefined, role |-> Undefined, name |-> Undefined, email |-> Undefined]

\* `Demo ${role.charAt(0).toUpperCase() + role.slice(1)}`
DemoName(role) ==
  CASE role = "customer" -> "Demo Customer"
    [] role = "farmer" -> "Demo Farmer"
    [] role = "admin" -> "Demo Admin"
    [] role = "logistics" -> "Demo Logistics"
    [] OTHER -> "Demo ?"

\* A login that mints a fresh identity id at every call.
demoUserPerLogin(role) ==
  [id |-> "demo_" \o role \o "_" \o ToString(now), name |-> DemoName(role),
   email |-> "demo-" \o role \o "@farmers10.com", role |-> role]

\* const demoUser = { id: 'demo_' + role, ... }
demoUser(role) ==
  [id |-> "demo_" \o role, name |-> DemoName(role),
   email |-> "demo-" \o role \o "@farmers10.com", role |-> role]

\* jwt.sign(payload, secret, { expiresIn: '7d' }) at time t
jwtSign(payload, secret, t) ==
  [fmt |-> "jwt", userId |-> payload.userId, role |-> payload.role,
   name |-> payload.name, email |-> payload.email,
   iat |-> ClockTimestamp(t),
   exp |-> ClockTimestamp(t) + TokenTTLDays * (MsPerDay \div 1000),
   sig |-> secret]

\* A verifier that still accepts a token at the very second it expires.
jwtVerifyLateExpiry(token, secret, t) ==
  IF token.fmt # "jwt" THEN [ok |-> FALSE, error |-> "JsonWebTokenError"]
  ELSE IF token.sig # secret THEN [ok |-> FALSE, error |-> "JsonWebTokenError"]
  ELSE IF ClockTimestamp(t) > token.exp THEN [ok |-> FALSE, error |-> "TokenExpiredError"]
  ELSE [ok |-> TRUE, error |-> ""]

\* jwt.verify(token, secret) at time t: the decoded payload, or a throw
jwtVerify(token, secret, t) ==
  IF token.fmt # "jwt" THEN [ok |-> FALSE, error |-> "JsonWebTokenError"]
  ELSE IF token.sig # secret THEN [ok |-> FALSE, error |-> "JsonWebTokenError"]
  ELSE IF ClockTimestamp(t) >= token.exp THEN [ok |-> FALSE, error |-> "TokenExpiredError"]
  ELSE [ok |-> TRUE, error |-> ""]

\* A login that signs every token for the default role.
IssueTokenDefaultRole(role, t) ==
  LET u == demoUser(role) IN
  jwtSign([userId |-> u.id, role |-> "customer", name |-> u.name, email |-> u.email],
          JWT_SECRET, t)

\* The token demo-login signs for a role at time t.
IssueToken(role, t) ==
  LET u == demoUser(role) IN
  jwtSign([userId |-> u.id, role |-> u.role, name |-> u.name, email |-> u.email],
          JWT_SECRET, t)

\* An Authorization header, split at spaces: `words` parts, the second is `token`.
Header(words, token) == [words |-> words, token |-> token]

OrElse(v, default) == IF v = Undefined THEN default ELSE v

\* A middleware that hands a missing token to jwt.verify and answers 403 for it.
authenticateTokenMissingAsInvalid(header, t) ==
  LET token == IF header.words >= 2 THEN header.token ELSE NoToken IN
  IF token.fmt # "none" /\ jwtVerify(token, JWT_SECRET, t).ok
  THEN [status |-> 0, error |-> "",
        user |-> [id |-> token.userId, role |-> token.role,
                  name |-> OrElse(token.name, "Demo User"),
                  email |-> OrElse(token.email, "demo@farmers10.com")]]
  ELSE [status |-> 403, error |-> "Invalid token", user |-> NoUser]

\* A verifier with single-session semantics: a token is refused once some client
\* holds a token issued later.
authenticateTokenSingleSession(header, t) ==
  LET token == IF header.words >= 2 THEN header.token ELSE NoToken IN
  IF token.fmt = "none"
  THEN [status |-> 401, error |-> "Access token required", user |-> NoUser]
  ELSE IF /\ jwtVerify(token, JWT_SECRET, t).ok
          /\ \A c \in Clients : wallet[c].iat <= token.iat
       THEN [status |-> 0, error |-> "",
             user |-> [id |-> token.userId, role |-> token.role,
                       name |-> OrElse(token.name, "Demo User"),
                       email |-> OrElse(token.email, "demo@farmers10.com")]]
       ELSE [status |-> 403, error |-> "Invalid token", user |-> NoUser]

\* authenticateToken: status 0 stands for next()
authenticateToken(header, t) ==
  LET token == IF header.words >= 2 THEN header.token ELSE NoToken IN
  IF token.fmt = "none"
  THEN [status |-> 401, error |-> "Access token required", user |-> NoUser]
  ELSE IF jwtVerify(token, JWT_SECRET, t).ok
       THEN [status |-> 0, error |-> "",
             user |-> [id |-> token.userId, role |-> token.role,
                       name |-> OrElse(token.name, "Demo User"),
                       email |-> OrElse(token.email, "demo@farmers10.com")]]
       ELSE [status |-> 403, error |-> "Invalid token", user |-> NoUser]

\* A guard that only checks identities that carry a role.
authorizeRoleOpenForNoRole(roles, user) ==
  IF user.role # Undefined /\ user.role \notin roles
  THEN [status |-> 403, error |-> "Insufficient permissions"]
  ELSE [status |-> 0, error |-> ""]

\* authorizeRole(roles)(req): status 0 stands for next()
authorizeRole(roles, user) ==
  IF user.role \notin roles
  THEN [status |-> 403, error |-> "Insufficient permissions"]
  ELSE [status |-> 0, error |-> ""]

\* The routes behind authenticateToken; `gated` ones also pass authorizeRole(roles).
Route(path, gated, roles) == [path |-> path, gated |-> gated, roles |-> roles]

PostOrdersRoute == Route("POST /api/orders", FALSE, {})
GetOrdersRoute == Route("GET /api/orders", FALSE, {})
PostInventoryRoute == Route("POST /api/inventory", TRUE, {"farmer"})
LogisticsRoute == Route("GET /api/logistics/routes", TRUE, {"logistics", "admin"})
LeadsRoute == Route("GET /api/leads", TRUE, {"admin"})
StatisticsRoute == Route("GET /api/admin/statistics", TRUE, {"admin"})
HarvestRoute == Route("GET /api/harvest-calendar", FALSE, {})

\* A chain that asks the role guard first, on the role the unverified token claims.
MiddlewareRoleFirst(route, header, t) ==
  LET claimed == [NoUser EXCEPT !.role = header.token.role]
      z == authorizeRole(route.roles, claimed) IN
  IF route.gated /\ z.status # 0
  THEN [status |-> z.status, error |-> z.error, user |-> NoUser]
  ELSE authenticateToken(header, t)

\* The middleware chain of a route: the handler runs iff status = 0.
Middleware(route, header, t) ==
  LET a == authenticateToken(header, t) IN
  IF a.status # 0 THEN a
  ELSE LET z == authorizeRole(route.roles, a.user) IN
       IF route.gated /\ z.status # 0
       THEN [status |-> z.status, error |-> z.error, user |-> a.user]
       ELSE a

----
\* Orders, events and responses.

NoOrder ==
  [_id |-> <<>>, orderNumber |-> <<>>, customer |-> Undefined, items |-> "[]",
   orderTotal |-> 0, deliveryCharges |-> 0, finalAmount |-> 0,
   orderStatus |-> Undefined, paymentStatus |-> Undefined, deliveryAddress |-> "{}",
   createdAt |-> -1, timeline |-> <<>>]

TimelineEntry(status, timestamp, notes) ==
  [status |-> status, timestamp |-> timestamp, notes |-> notes]

\* 'F10' + Date.now().toString().slice(-6) + three random base-36 characters
generateOrderNumber(t, rnd) == <<"F10", DateNow(t) % OrderDigitsMod, rnd>>

\* An order filed under the caller's display name instead of the caller's id.
newOrderCustomerByName(user, body, t, rnd) ==
  [_id |-> <<"order_", DateNow(t)>>,
   orderNumber |-> generateOrderNumber(t, rnd),
   customer |-> user.name,
   items |-> IF body.items = Undefined THEN "[]" ELSE body.items,
   orderTotal |-> 1000, deliveryCharges |-> 50, finalAmount |-> 1050,
   orderStatus |-> "placed", paymentStatus |-> "pending",
   deliveryAddress |-> IF body.deliveryAddress = Undefined THEN "{}"
                       ELSE body.deliveryAddress,
   createdAt |-> DateNow(t),
   timeline |-> << TimelineEntry("placed", DateNow(t), "Order placed successfully") >>]

\* The order POST /api/orders builds for req.user and req.body at time t.
newOrder(user, body, t, rnd) ==
  [_id |-> <<"order_", DateNow(t)>>,
   orderNumber |-> generateOrderNumber(t, rnd),
   customer |-> user.id,
   items |-> IF body.items = Undefined THEN "[]" ELSE body.items,
   orderTotal |-> 1000, deliveryCharges |-> 50, finalAmount |-> 1050,
   orderStatus |-> "placed", paymentStatus |-> "pending",
   deliveryAddress |-> IF body.deliveryAddress = Undefined THEN "{}"
                       ELSE body.deliveryAddress,
   createdAt |-> DateNow(t),
   timeline |-> << TimelineEntry("placed", DateNow(t), "Order placed successfully") >>]

\* The two orders GET /api/orders builds on every call (a local `demoOrders`).
fixedOrders(user, t) ==
  << [_id |-> <<"", 1>>, orderNumber |-> <<"F10", 1, "">>,
      customer |-> user.name \o " <" \o user.email \o ">", items |-> "Black Pepper, Cardamom",
      orderTotal |-> 1100, deliveryCharges |-> 50, finalAmount |-> 1150,
      orderStatus |-> "shipped", paymentStatus |-> "paid",
      deliveryAddress |-> "123 Main Street, Kochi",
      createdAt |-> DateNow(t) - 2 * MsPerDay,
      timeline |->
        << TimelineEntry("placed", DateNow(t) - 2 * MsPerDay, "Order placed successfully"),
           TimelineEntry("confirmed", DateNow(t) - 2 * MsPerDay + MsPerDay \div 24,
                         "Payment confirmed"),
           TimelineEntry("processing", DateNow(t) - 36 * (MsPerDay \div 24),
                         "Order being processed"),
           TimelineEntry("shipped", DateNow(t) - MsPerDay,
                         "Order shipped via Express Delivery") >>],
     [_id |-> <<"", 2>>, orderNumber |-> <<"F10", 2, "">>,
      customer |-> user.name \o " <" \o user.email \o ">", items |-> "Turmeric",
      orderTotal |-> 400, deliveryCharges |-> 50, finalAmount |-> 450,
      orderStatus |-> "delivered", paymentStatus |-> "paid",
      deliveryAddress |-> "123 Main Street, Kochi",
      createdAt |-> DateNow(t) - 5 * MsPerDay,
      timeline |->
        << TimelineEntry("placed", DateNow(t) - 5 * MsPerDay, "Order placed successfully"),
           TimelineEntry("confirmed", DateNow(t) - 5 * MsPerDay + MsPerDay \div 48,
                         "Order confirmed"),
           TimelineEntry("delivered", DateNow(t) - 3 * MsPerDay,
                         "Order delivered successfully") >>] >>

NoEvent ==
  [name |-> "none", room |-> Undefined, orderNumber |-> <<>>, status |-> Undefined,
   message |-> Undefined, type |-> Undefined, timestamp |-> -1, to |-> {}]

\* An emit that reaches only the sockets that joined some room.
ioEmitToRoomMembers(name, orderNumber, status, message, sockets) ==
  [name |-> name, room |-> Broadcast, orderNumber |-> orderNumber, status |-> status,
   message |-> message, type |-> Undefined, timestamp |-> -1,
   to |-> {s \in Sockets : sockets[s].up /\ sockets[s].rooms # {}}]

\* io.emit(name, payload): every connected socket receives it.
ioEmit(name, orderNumber, status, message, sockets) ==
  [name |-> name, room |-> Broadcast, orderNumber |-> orderNumber, status |-> status,
   message |-> message, type |-> Undefined, timestamp |-> -1,
   to |-> {s \in Sockets : sockets[s].up}]

\* A notifier that forgets the room and emits to everyone.
sendNotificationToAll(userId, message, t, sockets) ==
  [name |-> "notification", room |-> userId, orderNumber |-> <<>>, status |-> Undefined,
   message |-> message, type |-> "info", timestamp |-> DateNow(t),
   to |-> {s \in Sockets : sockets[s].up}]

\* sendNotification(userId, message, type = 'info'): io.to(userId).emit('notification', ...)
sendNotification(userId, message, t, sockets) ==
  [name |-> "notification", room |-> userId, orderNumber |-> <<>>, status |-> Undefined,
   message |-> message, type |-> "info", timestamp |-> DateNow(t),
   to |-> {s \in Sockets : sockets[s].up /\ userId \in sockets[s].rooms}]

Response(route, status, error, user, ran, token, role, order, orders) ==
  [route |-> route, status |-> status, error |-> error, user |-> user, ran |-> ran,
   token |-> token, at |-> now, role |-> role, order |-> order, orders |-> orders]

NoResponse ==
  [route |-> "none", status |-> 0, error |-> "", user |-> NoUser, ran |-> FALSE,
   token |-> NoToken, at |-> 0, role |-> Undefined, order |-> NoOrder, orders |-> <<>>]

\* What a request that stopped in the middleware answers.
Rejected(route, m, header) ==
  Response(route.path, m.status, m.error, m.user, FALSE, header.token, Undefined,
           NoOrder, <<>>)

\* The credentials a client can put on a request: no header, a header without a
\* second part, its wallet token, junk, a token signed with another key, and a
\* well-formed token signed with the configured secret by another issuer.
ForeignToken(role, t) ==
  jwtSign([userId |-> "ext_1", role |-> role, name |-> Undefined, email |-> Undefined],
          JWT_SECRET, t)

Headers(c) ==
  { Header(0, NoToken), Header(1, NoToken), Header(2, wallet[c]), Header(2, Garbage),
    Header(2, [IssueToken("admin", now) EXCEPT !.sig = OtherSecret]) }

ForeignHeaders ==
  { Header(2, ForeignToken(r, now)) : r \in {"bogus", Undefined} }

\* The four cron.schedule calls, and a task as node-cron keeps it.
JobNames == {"news", "price", "weather", "report"}

\* last: outcome of the latest run; failures: 'task-failed' events emitted so far;
\* due: the task's timer has expired and its callback waits in the event loop.
Job(registered) ==
  [registered |-> registered, last |-> "never", failures |-> 0, due |-> FALSE]

\* The toggles of .env.example, and the values an operator can give them.
ToggleNames == {"ENABLE_NEWS_UPDATES", "ENABLE_PRICE_UPDATES", "ENABLE_WEATHER_UPDATES"}

EnvExample == [v \in ToggleNames |-> "true"]

Envs == [ToggleNames -> {"true", "false"}]

\* Whether startup reaches the job's cron.schedule call: news and price sit behind
\* `process.env.ENABLE_..._UPDATES !== 'false'`, weather and report behind nothing.
Scheduled(j, e) ==
  CASE j = "news" -> e["ENABLE_NEWS_UPDATES"] # "false"
    [] j = "price" -> e["ENABLE_PRICE_UPDATES"] # "false"
    [] OTHER -> TRUE

----
\* The server after startup under environment e.
Startup(e) ==
  /\ now = 0
  /\ wallet = [c \in Clients |-> NoToken]
  /\ demoOrders = <<>>
  /\ conn = [s \in Sockets |-> [up |-> FALSE, rooms |-> {}]]
  /\ lastEmit = NoEvent
  /\ resp = NoResponse
  /\ demoLeads = <<>>
  /\ inflight = {}
  /\ handled = <<>>
  /\ proc = "running"
  /\ jobs = [j \in JobNames |-> Job(Scheduled(j, e))]
  /\ env = e

Init == Startup(EnvExample)

InitEnv == \E e \in Envs : Startup(e)

\* The clock advances by a tick.
Tick(max) ==
  /\ now < max
  /\ now' = now + 1
  /\ UNCHANGED <<wallet, demoOrders, conn, lastEmit, resp, background>>

\* POST /api/auth/demo-login with body { role }
DemoLogin(c, role) ==
  /\ IF role \notin validRoles
     THEN /\ resp' = Response("POST /api/auth/demo-login", 400, "Invalid role", NoUser,
                              TRUE, NoToken, role, NoOrder, <<>>)
          /\ UNCHANGED wallet
     ELSE LET token == IssueToken(role, now) IN
          /\ resp' = Response("POST /api/auth/demo-login", 200, "", demoUser(role),
                              TRUE, token, role, NoOrder, <<>>)
          /\ wallet' = [wallet EXCEPT ![c] = token]
  /\ UNCHANGED <<now, demoOrders, conn, lastEmit, background>>

\* A handler behind the middleware that only answers (no server state).
PlainRequest(route, c, header) ==
  LET m == Middleware(route, header, now) IN
  /\ resp' = IF m.status # 0 THEN Rejected(route, m, header)
             ELSE Response(route.path, 200, "", m.user, TRUE, header.token, Undefined,
                           NoOrder, <<>>)
  /\ UNCHANGED <<now, wallet, demoOrders, conn, lastEmit, background>>

\* A listing that also serves what POST /api/orders stored.
GetOrdersFromStore(c, header) ==
  LET m == Middleware(GetOrdersRoute, header, now) IN
  /\ resp' = IF m.status # 0 THEN Rejected(GetOrdersRoute, m, header)
             ELSE Response(GetOrdersRoute.path, 200, "", m.user, TRUE, header.token,
                           Undefined, NoOrder, fixedOrders(m.user, now) \o demoOrders)
  /\ UNCHANGED <<now, wallet, demoOrders, conn, lastEmit, background>>

\* GET /api/orders
GetOrders(c, header) ==
  LET m == Middleware(GetOrdersRoute, header, now) IN
  /\ resp' = IF m.status # 0 THEN Rejected(GetOrdersRoute, m, header)
             ELSE Response(GetOrdersRoute.path, 200, "", m.user, TRUE, header.token,
                           Undefined, NoOrder, fixedOrders(m.user, now))
  /\ UNCHANGED <<now, wallet, demoOrders, conn, lastEmit, background>>

\* POST /api/orders with body { items, deliveryAddress }; rnd is the draw of
\* Math.random() in generateOrderNumber, max the bound on the store's length.
PlaceOrder(c, header, body, rnd, max) ==
  LET m == Middleware(PostOrdersRoute, header, now) IN
  /\ IF m.status # 0
     THEN /\ resp' = Rejected(PostOrdersRoute, m, header)
          /\ UNCHANGED demoOrders
     ELSE LET order == newOrder(m.user, body, now, rnd) IN
          /\ Len(demoOrders) < max
          /\ demoOrders' = Append(demoOrders, order)
          /\ resp' = Response(PostOrdersRoute.path, 201, "", m.user, TRUE, header.token,
                              Undefined, order, <<>>)
  /\ UNCHANGED <<now, wallet, conn, lastEmit, background>>

\* A submission that notifies and then empties the room it notified.
PostInventoryOneShotRoom(c, header, emitThrows) ==
  LET m == Middleware(PostInventoryRoute, header, now) IN
  /\ m.status = 0
  /\ lastEmit' = sendNotification("admin_user",
                      "New inventory submission from " \o m.user.name, now, conn)
  /\ conn' = [s \in Sockets |-> [conn[s] EXCEPT !.rooms = @ \ {"admin_user"}]]
  /\ resp' = Response(PostInventoryRoute.path, 201, "", m.user, TRUE,
                      header.token, Undefined, NoOrder, <<>>)
  /\ UNCHANGED <<now, wallet, demoOrders, background>>

\* A submission that notifies the submitting farmer's own room.
PostInventoryNotifiesSubmitter(c, header, emitThrows) ==
  LET m == Middleware(PostInventoryRoute, header, now) IN
  /\ m.status = 0
  /\ lastEmit' = sendNotification(m.user.id,
                      "New inventory submission from " \o m.user.name, now, conn)
  /\ resp' = Response(PostInventoryRoute.path, 201, "", m.user, TRUE,
                      header.token, Undefined, NoOrder, <<>>)
  /\ UNCHANGED <<now, wallet, demoOrders, conn, background>>

\* sendEmail and sendWhatsAppMessage wrap their body in try/catch and log;
\* sendNotification has none.
NotifierCatches(fn) == fn \in {"sendEmail", "sendWhatsAppMessage"}

\* await fn(...): how the notifier's promise settles when its transport throws.
Await(fn, throws) == IF throws /\ ~NotifierCatches(fn) THEN "rejected" ELSE "resolved"

\* POST /api/inventory; `emitThrows` says whether io.to(...).emit throws.
PostInventory(c, header, emitThrows) ==
  LET m == Middleware(PostInventoryRoute, header, now) IN
  /\ IF m.status # 0
     THEN /\ resp' = Rejected(PostInventoryRoute, m, header)
          /\ UNCHANGED lastEmit
     ELSE IF Await("sendNotification", emitThrows) = "rejected"
     THEN /\ resp' = Response(PostInventoryRoute.path, 500, "error.message", m.user, TRUE,
                              header.token, Undefined, NoOrder, <<>>)
          /\ UNCHANGED lastEmit
     ELSE /\ lastEmit' = sendNotification("admin_user",
                             "New inventory submission from " \o m.user.name, now, conn)
          /\ resp' = Response(PostInventoryRoute.path, 201, "", m.user, TRUE,
                              header.token, Undefined, NoOrder, <<>>)
  /\ UNCHANGED <<now, wallet, demoOrders, conn, background>>

\* The lead POST /api/leads builds from the request body.
newLead(body, t) ==
  [id |-> <<"lead_", DateNow(t)>>, name |-> body.name, email |-> body.email,
   phone |-> body.phone, interestedSpices |-> body.interestedSpices,
   monthlyQuantity |-> body.monthlyQuantity, createdAt |-> DateNow(t), status |-> "new"]

\* POST /api/leads (no middleware); `emailThrows` says whether sending the mail throws.
PostLead(c, body, emailThrows) ==
  /\ Len(demoLeads) < MaxLeads
  /\ demoLeads' = Append(demoLeads, newLead(body, now))
  /\ resp' = IF Await("sendEmail", emailThrows) = "rejected"
             THEN Response("POST /api/leads", 500, "error.message", NoUser, TRUE, NoToken,
                           Undefined, NoOrder, <<>>)
             ELSE Response("POST /api/leads", 201, "", NoUser, TRUE, NoToken,
                           Undefined, NoOrder, <<>>)
  /\ UNCHANGED <<now, wallet, demoOrders, conn, lastEmit, inflight, handled, proc, jobs,
                 env>>

\* io.on('connection')
Connect(s) ==
  /\ ~conn[s].up
  /\ conn' = [conn EXCEPT ![s] = [up |-> TRUE, rooms |-> {}]]
  /\ UNCHANGED <<now, wallet, demoOrders, lastEmit, resp, background>>

\* A join that hands the room's last event to the socket that just joined.
JoinRoomReplaysLast(s, userId) ==
  /\ conn[s].up
  /\ conn' = [conn EXCEPT ![s].rooms = @ \cup {userId}]
  /\ lastEmit' = IF lastEmit.room = userId
                 THEN [lastEmit EXCEPT !.to = @ \cup {s}]
                 ELSE lastEmit
  /\ UNCHANGED <<now, wallet, demoOrders, resp, background>>

\* socket.on('join-room', userId)
JoinRoom(s, userId) ==
  /\ conn[s].up
  /\ conn' = [conn EXCEPT ![s].rooms = @ \cup {userId}]
  /\ UNCHANGED <<now, wallet, demoOrders, lastEmit, resp, background>>

\* A disconnect that leaves the socket's room memberships behind.
DisconnectKeepsRooms(s) ==
  /\ conn[s].up
  /\ conn' = [conn EXCEPT ![s].up = FALSE]
  /\ UNCHANGED <<now, wallet, demoOrders, lastEmit, resp, background>>

\* socket.on('disconnect'): socket.io has already taken the socket out of its rooms
Disconnect(s) ==
  /\ conn[s].up
  /\ conn' = [conn EXCEPT ![s] = [up |-> FALSE, rooms |-> {}]]
  /\ UNCHANGED <<now, wallet, demoOrders, lastEmit, resp, background>>

\* A handler that treats a cancellation as a deletion of the stored order.
OrderUpdateDeletesCancelled(s, orderId, status, notes) ==
  /\ conn[s].up
  /\ lastEmit' = ioEmit("order-status-update", orderId, status,
                        "Your order is now " \o status, conn)
  /\ demoOrders' = IF status = "cancelled"
                   THEN SelectSeq(demoOrders, LAMBDA o : o.orderNumber # orderId)
                   ELSE demoOrders
  /\ UNCHANGED <<now, wallet, conn, resp, background>>

\* A handler that writes the new status into the stored order and appends nothing.
OrderUpdateSetsStatusOnly(s, orderId, status, notes) ==
  /\ conn[s].up
  /\ lastEmit' = ioEmit("order-status-update", orderId, status,
                        "Your order is now " \o status, conn)
  /\ demoOrders' = [i \in 1..Len(demoOrders) |->
                      IF demoOrders[i].orderNumber = orderId
                      THEN [demoOrders[i] EXCEPT !.orderStatus = status]
                      ELSE demoOrders[i]]
  /\ UNCHANGED <<now, wallet, conn, resp, background>>

\* socket.on('order-update', { orderId, status, notes })
OrderUpdate(s, orderId, status, notes) ==
  /\ conn[s].up
  /\ lastEmit' = ioEmit("order-status-update", orderId, status,
                        "Your order is now " \o status, conn)
  /\ UNCHANGED <<now, wallet, demoOrders, conn, resp, background>>

\* An 'order-update' packet on its way to the server: seq numbers the packets,
\* after is how many packets the server had handled when this one was sent.
Packet(s, orderId, status, notes) ==
  [from |-> s, orderId |-> orderId, status |-> status, notes |-> notes,
   seq |-> Cardinality(inflight) + Len(handled), after |-> Len(handled)]

\* A client's socket.emit('order-update', data): the packet is on the wire.
SendOrderUpdate(s, orderId, status, notes) ==
  /\ conn[s].up
  /\ Cardinality(inflight) + Len(handled) < MaxUpdates
  /\ inflight' = inflight \cup {Packet(s, orderId, status, notes)}
  /\ UNCHANGED <<now, wallet, demoOrders, conn, lastEmit, resp, demoLeads, handled, proc,
                 jobs, env>>

\* The server takes one packet off the wire and runs socket.on('order-update') on it.
\* The handler has no await: it runs to completion before the next packet is taken.
DispatchOrderUpdate(p) ==
  /\ p \in inflight
  /\ conn[p.from].up
  /\ lastEmit' = ioEmit("order-status-update", p.orderId, p.status,
                        "Your order is now " \o p.status, conn)
  /\ inflight' = inflight \ {p}
  /\ handled' = Append(handled, p)
  /\ UNCHANGED <<now, wallet, demoOrders, conn, resp, demoLeads, proc, jobs, env>>

\* What a cron callback hands to io.emit. The weather alert is
\* {district, alert, severity}: alert is kept as message, severity as status.
JobEvent(j, sockets) ==
  CASE j = "news" ->
         ioEmit("news-update", <<>>, Undefined, "New market news available", sockets)
    [] j = "price" ->
         ioEmit("price-update", <<>>, Undefined, "Market prices updated", sockets)
    [] j = "weather" ->
         ioEmit("weather-alert", <<>>, "medium", "Heavy rain expected in next 48 hours",
                sockets)
    [] OTHER -> NoEvent

\* Only the daily report wraps its body in try/catch.
JobCatches(j) == j = "report"

\* A timer that is armed once and never again after the job's first run.
TimerExpiresOnce(j) ==
  /\ proc = "running"
  /\ jobs[j].registered
  /\ ~jobs[j].due
  /\ jobs[j].last = "never"
  /\ jobs' = [jobs EXCEPT ![j].due = TRUE]
  /\ UNCHANGED <<now, wallet, demoOrders, conn, lastEmit, resp, demoLeads, inflight,
                 handled, proc, env>>

\* The clock reaches the next match of the job's cron expression: the callback of a
\* registered task is queued (once; a callback still waiting is not queued again).
TimerExpires(j) ==
  /\ proc = "running"
  /\ jobs[j].registered
  /\ ~jobs[j].due
  /\ jobs' = [jobs EXCEPT ![j].due = TRUE]
  /\ UNCHANGED <<now, wallet, demoOrders, conn, lastEmit, resp, demoLeads, inflight,
                 handled, proc, env>>

\* node-cron 3 Task.execute: a throw or a rejected promise of the callback becomes a
\* 'task-failed' event, anything else 'task-finished'; nothing is rethrown.
taskExecute(threw) ==
  [proc |-> "running", last |-> IF threw THEN "failed" ELSE "finished"]

\* The callback run from a bare timer instead of a cron task: nobody catches its
\* rejection, and an unhandled rejection ends a Node 18 process.
RunJobBySetInterval(j, fails) ==
  /\ proc = "running"
  /\ jobs[j].registered
  /\ jobs[j].due
  /\ fails /\ ~JobCatches(j) => jobs[j].failures < MaxFailures
  /\ LET threw == fails /\ ~JobCatches(j) IN
     /\ proc' = IF threw THEN "crashed" ELSE "running"
     /\ jobs' = [jobs EXCEPT ![j].last = IF threw THEN "failed" ELSE "finished",
                             ![j].failures = IF threw THEN @ + 1 ELSE @,
                             ![j].due = FALSE]
  /\ lastEmit' = IF fails \/ j = "report" THEN lastEmit ELSE JobEvent(j, conn)
  /\ UNCHANGED <<now, wallet, demoOrders, conn, resp, demoLeads, inflight, handled, env>>

\* One firing of a cron job; `fails` says whether its io.emit / sendEmail call throws.
\* A throw in the report is caught by its own try/catch; a throw in the other three
\* leaves the callback as a rejected promise and reaches Task.execute.
RunJob(j, fails) ==
  /\ proc = "running"
  /\ jobs[j].registered
  /\ jobs[j].due
  /\ fails /\ ~JobCatches(j) => jobs[j].failures < MaxFailures
  /\ LET threw == fails /\ ~JobCatches(j)
         r == taskExecute(threw) IN
     /\ proc' = r.proc
     /\ jobs' = [jobs EXCEPT ![j].last = r.last,
                             ![j].failures = IF threw THEN @ + 1 ELSE @,
                             ![j].due = FALSE]
  /\ lastEmit' = IF fails \/ j = "report" THEN lastEmit ELSE JobEvent(j, conn)
  /\ UNCHANGED <<now, wallet, demoOrders, conn, resp, demoLeads, inflight, handled, env>>

----
\* Inputs.
LoginInputs == validRoles \cup {"bogus", Undefined}

Bodies ==
  { [items |-> Undefined, deliveryAddress |-> Undefined],
    [items |-> "pepper", deliveryAddress |-> Undefined],
    [items |-> "pepper", deliveryAddress |-> "Kochi"] }

RandomDraws == {"AAA", "ZZZ"}

UnknownOrderId == <<"F10", 0, "???">>

\* The order ids a client can name in 'order-update': a stored order's number, or not.
OrderIds == {demoOrders[i].orderNumber : i \in 1..Len(demoOrders)} \cup {UnknownOrderId}

LeadBodies ==
  {[name |-> "Asha", email |-> email, phone |-> "9400000000",
    interestedSpices |-> "[cardamom]", monthlyQuantity |-> "10kg"] :
     email \in {"asha@example.com", Undefined}}

StatusInputs == OrderStatuses \cup {"bogus"}

----
\* Credentials and the role guard, over a token's whole lifetime.
NextAuth ==
  \/ Tick(AuthMaxTime)
  \/ \E role \in LoginInputs : DemoLogin("c1", role)
  \/ \E route \in {LogisticsRoute, LeadsRoute, StatisticsRoute, HarvestRoute},
        h \in Headers("c1") \cup ForeignHeaders : PlainRequest(route, "c1", h)
  \/ \E h \in Headers("c1") \cup ForeignHeaders : GetOrders("c1", h)
  \/ \E h \in Headers("c1") \cup ForeignHeaders : PostInventory("c1", h, FALSE)
  \/ \E h \in {Header(0, NoToken), Header(2, Garbage)} :
        PlaceOrder("c1", h, [items |-> "pepper", deliveryAddress |-> "Kochi"], "AAA", MaxOrders)

SpecAuth == Init /\ [][NextAuth]_vars

\* The order store under several placements, at the same and at different times and
\* with the same and with different draws of Math.random().
NextStore ==
  \/ Tick(MaxTime)
  \/ DemoLogin("c1", "customer")
  \/ \E rnd \in RandomDraws :
        PlaceOrder("c1", Header(2, wallet["c1"]),
                   [items |-> "pepper", deliveryAddress |-> "Kochi"], rnd, MaxStored)
  \/ GetOrders("c1", Header(2, wallet["c1"]))
  \/ Connect("s1")
  \/ Disconnect("s1")
  \/ \E orderId \in OrderIds : OrderUpdate("s1", orderId, "cancelled", "note")

SpecStore == Init /\ [][NextStore]_vars

\* Every handler that publishes, over a store, a lead list and rooms that are not empty.
NextPublish ==
  \/ DemoLogin("c1", "farmer")
  \/ PlaceOrder("c1", Header(2, wallet["c1"]),
                [items |-> "pepper", deliveryAddress |-> "Kochi"], "AAA", MaxOrders)
  \/ PostLead("c1", CHOOSE body \in LeadBodies : body.email # Undefined, FALSE)
  \/ PostInventory("c1", Header(2, wallet["c1"]), FALSE)
  \/ \E s \in Sockets : Connect(s)
  \/ \E s \in Sockets : JoinRoom(s, "admin_user")
  \/ \E s \in Sockets : Disconnect(s)
  \/ \E orderId \in OrderIds : OrderUpdate("s1", orderId, "confirmed", "note")
  \/ TimerExpires("weather")
  \/ RunJob("weather", FALSE)

SpecPublish == Init /\ [][NextPublish]_vars

\* The identity ids demo-login can issue.
DemoIds == {demoUser(role).id : role \in validRoles}

\* A farmer's submissions, with sockets in any of the demo rooms and the admin room.
NextAdminRoom ==
  \/ DemoLogin("c1", "farmer")
  \/ PostInventory("c1", Header(2, wallet["c1"]), FALSE)
  \/ \E s \in Sockets : Connect(s)
  \/ \E s \in Sockets, userId \in DemoIds \cup {"admin_user"} : JoinRoom(s, userId)
  \/ \E s \in Sockets : Disconnect(s)

SpecAdminRoom == Init /\ [][NextAdminRoom]_vars

\* The socket a client's browser opens.
SocketOf(c) == IF c = "c1" THEN "s1" ELSE "s2"

\* Two clients that log in, at the same or at different times, and whose sockets
\* join the room of the id their token carries.
NextShared ==
  \/ Tick(MaxTime)
  \/ \E c \in Clients, role \in {"farmer", "customer"} : DemoLogin(c, role)
  \/ \E s \in Sockets : Connect(s)
  \/ \E s \in Sockets : Disconnect(s)
  \/ \E c \in Clients : wallet[c] # NoToken /\ JoinRoom(SocketOf(c), wallet[c].userId)

SpecShared == Init /\ [][NextShared]_vars

\* Two clients' tokens over their lifetime, among every other kind of operation.
NextLife ==
  \/ Tick(AuthMaxTime)
  \/ \E c \in Clients : DemoLogin(c, "customer")
  \/ \E c \in Clients : GetOrders(c, Header(2, wallet[c]))
  \/ PlaceOrder("c2", Header(2, wallet["c2"]),
                [items |-> "pepper", deliveryAddress |-> "Kochi"], "AAA", MaxOrders)
  \/ Connect("s1")
  \/ Disconnect("s1")
  \/ \E orderId \in OrderIds : OrderUpdate("s1", orderId, "cancelled", "note")
  \/ TimerExpires("price")
  \/ RunJob("price", FALSE)

SpecLife == Init /\ [][NextLife]_vars

\* The order pipeline: placement and 'order-update'.
Next ==
  \/ Tick(MaxTime)
  \/ \E role \in {"customer", "farmer", "bogus"} : DemoLogin("c1", role)
  \/ \E h \in {Header(0, NoToken), Header(2, wallet["c1"])}, body \in Bodies :
        PlaceOrder("c1", h, body, "AAA", MaxOrders)
  \/ GetOrders("c1", Header(2, wallet["c1"]))
  \/ Connect("s1")
  \/ Disconnect("s1")
  \/ \E orderId \in OrderIds, status \in StatusInputs :
        OrderUpdate("s1", orderId, status, "note")

Spec == Init /\ [][Next]_vars

\* The event fabric: rooms, and who receives what 'order-update' emits.
NextBus ==
  \/ \E role \in {"customer", "farmer"} : DemoLogin("c1", role)
  \/ PlaceOrder("c1", Header(2, wallet["c1"]),
                [items |-> "pepper", deliveryAddress |-> "Kochi"], "AAA", MaxOrders)
  \/ \E s \in Sockets : Connect(s)
  \/ \E s \in Sockets, userId \in {"demo_customer", "demo_farmer"} : JoinRoom(s, userId)
  \/ \E s \in Sockets : Disconnect(s)
  \/ \E s \in Sockets, orderId \in OrderIds, status \in {"confirmed", "cancelled"} :
        OrderUpdate(s, orderId, status, "note")

SpecBus == Init /\ [][NextBus]_vars

\* Rooms, targeted notifications and the broadcasts of the cron jobs.
NextRooms ==
  \/ DemoLogin("c1", "farmer")
  \/ PostInventory("c1", Header(2, wallet["c1"]), FALSE)
  \/ \E s \in Sockets : Connect(s)
  \/ \E s \in Sockets, userId \in {"demo_farmer", "admin_user"} : JoinRoom(s, userId)
  \/ \E s \in Sockets : Disconnect(s)
  \/ \E j \in {"news", "price", "weather"} : TimerExpires(j)
  \/ \E j \in {"news", "price", "weather"} : RunJob(j, FALSE)

SpecRooms == Init /\ [][NextRooms]_vars

\* Two 'order-update' packets that may be on the wire at the same time.
NextRace ==
  \/ DemoLogin("c1", "customer")
  \/ \E body \in Bodies : PlaceOrder("c1", Header(2, wallet["c1"]), body, "AAA", MaxOrders)
  \/ \E s \in Sockets : Connect(s)
  \/ \E s \in Sockets, orderId \in OrderIds, status \in {"confirmed", "cancelled", "bogus"} :
        SendOrderUpdate(s, orderId, status, "note")
  \/ \E p \in inflight : DispatchOrderUpdate(p)

SpecRace == Init /\ [][NextRace]_vars

\* Requests that await a notifier, each with and without a failing transport.
NextNotify ==
  \/ DemoLogin("c1", "farmer")
  \/ \E emitThrows \in BOOLEAN :
        PostInventory("c1", Header(2, wallet["c1"]), emitThrows)
  \/ \E body \in LeadBodies, emailThrows \in BOOLEAN : PostLead("c1", body, emailThrows)
  \/ \E s \in Sockets : Connect(s)
  \/ \E s \in Sockets : JoinRoom(s, "admin_user")
  \/ \E s \in Sockets : Disconnect(s)

SpecNotify == Init /\ [][NextNotify]_vars

\* The four cron jobs, each run with and without a failure, next to connecting sockets.
NextSched ==
  \/ \E s \in Sockets : Connect(s)
  \/ \E s \in Sockets : Disconnect(s)
  \/ \E j \in JobNames : TimerExpires(j)
  \/ \E j \in JobNames, fails \in BOOLEAN : RunJob(j, fails)

SpecSched == Init /\ [][NextSched]_vars

\* The scheduler alone, started under every setting of the toggles.  The clock never
\* stops, so a registered task's timer expires again and again, and the event loop
\* runs every queued callback.
NextCron ==
  \/ \E j \in JobNames : TimerExpires(j)
  \/ \E j \in JobNames, fails \in BOOLEAN : RunJob(j, fails)

SpecCron ==
  /\ InitEnv
  /\ [][NextCron]_vars
  /\ \A j \in JobNames : WF_vars(TimerExpires(j))
  /\ \A j \in JobNames : WF_vars(\E fails \in BOOLEAN : RunJob(j, fails))

----
\* The order state graph of the specification (section 4.5).
Terminal == {"delivered", "cancelled"}

Edge(from, to) ==
  \/ <<from, to>> \in {<<"placed", "confirmed">>, <<"confirmed", "processing">>,
                        <<"processing", "shipped">>, <<"shipped", "delivered">>}
  \/ from \in {"placed", "confirmed", "processing"} /\ to = "cancelled"

\* to is reachable from `from` in one or more steps
Reachable(from, to) ==
  LET rank == [st \in OrderStatuses \ {"cancelled"} |->
                 CASE st = "placed" -> 1 [] st = "confirmed" -> 2 [] st = "processing" -> 3
                   [] st = "shipped" -> 4 [] OTHER -> 5]
  IN /\ from \in OrderStatuses /\ to \in OrderStatuses
     /\ from # "cancelled"
     /\ IF to = "cancelled" THEN rank[from] <= 3 ELSE rank[from] < rank[to]

StoredIndex(orderId) == {i \in 1..Len(demoOrders) : demoOrders[i].orderNumber = orderId}

\* This step handed a new 'order-status-update' to socket.io.
EmitsOrderUpdate == lastEmit' # lastEmit /\ lastEmit'.name = "order-status-update"

TimelineConsistent(o) ==
  /\ Len(o.timeline) >= 1
  /\ o.timeline[Len(o.timeline)].status = o.orderStatus
  /\ \A i \in 1..(Len(o.timeline) - 1) :
        o.timeline[i].timestamp <= o.timeline[i + 1].timestamp

\* C1: every order in the store, and every order GET /api/orders serves, has a
\* timeline whose last entry carries the order's orderStatus and whose timestamps
\* never decrease, whatever placements and 'order-update' messages came before.
C1_TimelineMatchesStatus ==
  /\ \A i \in 1..Len(demoOrders) : TimelineConsistent(demoOrders[i])
  /\ \A i \in 1..Len(resp.orders) : TimelineConsistent(resp.orders[i])

\* An 'order-update' naming a stored order has been processed after its placement.
C1_Witness ==
  /\ lastEmit.name = "order-status-update"
  /\ lastEmit.status = "confirmed"
  /\ StoredIndex(lastEmit.orderNumber) # {}
  /\ Len(resp.orders) = 2

\* C2: an 'order-update' whose status is not reachable from the stored order's
\* status publishes no 'order-status-update' event (and the order stays as it was).
C2_InvalidTransitionPublishesNothing ==
  [][\A i \in 1..Len(demoOrders) :
       (EmitsOrderUpdate /\ lastEmit'.orderNumber = demoOrders[i].orderNumber)
         => Reachable(demoOrders[i].orderStatus, lastEmit'.status)]_vars

\* C3: once 'order-status-update' has announced a terminal status for a stored
\* order, no later 'order-status-update' announces a different status for it.
C3_TerminalIsFinal ==
  [][(/\ lastEmit.name = "order-status-update"
      /\ lastEmit.status \in Terminal
      /\ StoredIndex(lastEmit.orderNumber) # {}
      /\ lastEmit'.name = "order-status-update"
      /\ lastEmit'.orderNumber = lastEmit.orderNumber)
       => lastEmit'.status = lastEmit.status]_vars

\* C4: an 'order-update' that takes a stored order along an edge of the graph sets
\* its orderStatus to the new status and appends exactly one timeline entry
\* {newStatus, now, notes}.
C4_TransitionAppendsOneEntry ==
  [][\A i \in 1..Len(demoOrders) :
       (/\ EmitsOrderUpdate
        /\ lastEmit'.orderNumber = demoOrders[i].orderNumber
        /\ Edge(demoOrders[i].orderStatus, lastEmit'.status))
         => /\ demoOrders'[i].orderStatus = lastEmit'.status
            /\ Len(demoOrders'[i].timeline) = Len(demoOrders[i].timeline) + 1
            /\ demoOrders'[i].timeline[Len(demoOrders'[i].timeline)].status
                 = lastEmit'.status
            /\ demoOrders'[i].timeline[Len(demoOrders'[i].timeline)].timestamp
                 = DateNow(now)]_vars

\* C5: the 'order-status-update' of a stored order is received by exactly the
\* connected sockets that are in the room of the order's customer.
C5_UpdateGoesToCustomerRoom ==
  [][\A i \in 1..Len(demoOrders) :
       (EmitsOrderUpdate /\ lastEmit'.orderNumber = demoOrders[i].orderNumber)
         => lastEmit'.to = {s \in Sockets : conn[s].up
                                            /\ demoOrders[i].customer \in conn[s].rooms}]_vars

\* C6: a 201 from POST /api/orders carries an order that is 'placed', has the single
\* timeline entry 'placed', belongs to the identity of the presented token, and is
\* the order just pushed onto the store; so for every request body.
C6_NewOrderIsPlaced ==
  (resp.route = PostOrdersRoute.path /\ resp.status = 201) =>
     /\ resp.order.orderStatus = "placed"
     /\ Len(resp.order.timeline) = 1
     /\ resp.order.timeline[1].status = "placed"
     /\ resp.order.customer = resp.token.userId
     /\ Len(demoOrders) >= 1
     /\ demoOrders[Len(demoOrders)] = resp.order

\* An order was placed with neither items nor deliveryAddress in the body.
C6_Witness ==
  /\ resp.route = PostOrdersRoute.path
  /\ resp.status = 201
  /\ resp.order.items = "[]"
  /\ resp.order.deliveryAddress = "{}"
  /\ resp.order.customer = "demo_farmer"

----
\* The routes of the model, by path.
GuardedRoutes ==
  {PostOrdersRoute, GetOrdersRoute, PostInventoryRoute, LogisticsRoute, LeadsRoute,
   StatisticsRoute, HarvestRoute}

GuardedPaths == {r.path : r \in GuardedRoutes}

RouteOf(path) == CHOOSE r \in GuardedRoutes : r.path = path

LoginPath == "POST /api/auth/demo-login"

\* The credential of the last request carried the server's signature.
SignedByServer(token) == token.fmt = "jwt" /\ token.sig = JWT_SECRET

\* C7: a demo-login for one of the four roles answers 200 with a token that
\* authenticateToken accepts at every time before its expiry, yielding the role that
\* was asked for; a guarded request made with that token runs as that role; a
\* demo-login for any other role answers 400 'Invalid role' and carries no token.
C7_IssueVerifyRoundTrip ==
  /\ resp.route = LoginPath =>
        IF resp.role \in validRoles
        THEN /\ resp.status = 200
             /\ resp.token.fmt = "jwt"
             /\ ClockTimestamp(now) < resp.token.exp =>
                   LET a == authenticateToken(Header(2, resp.token), now) IN
                   a.status = 0 /\ a.user.role = resp.role
        ELSE resp.status = 400 /\ resp.error = "Invalid role" /\ resp.token = NoToken
  /\ \A c \in Clients :
        (/\ resp.route \in GuardedPaths
         /\ resp.token = wallet[c]
         /\ wallet[c] # NoToken
         /\ ClockTimestamp(resp.at) < resp.token.exp)
          => /\ resp.status \notin {401}
             /\ resp.error # "Invalid token"
             /\ resp.user.role = wallet[c].role
             /\ resp.user.role \in validRoles
             /\ resp.user.id = "demo_" \o resp.user.role

\* A token issued for 'logistics' was presented one tick after its issue and the
\* handler ran as 'logistics'.
C7_Witness ==
  /\ resp.route = GetOrdersRoute.path
  /\ resp.ran
  /\ resp.token = wallet["c1"]
  /\ resp.user.role = "logistics"
  /\ ClockTimestamp(resp.at) > resp.token.iat

\* C8: a token signed by the server lives exactly 7 days, and a guarded request that
\* presents it at or after its expiry gets 403 'Invalid token', sets no req.user and
\* does not reach the handler.
C8_ExpiredTokenRejected ==
  /\ \A c \in Clients :
        wallet[c] # NoToken
          => wallet[c].exp = wallet[c].iat + TokenTTLDays * 24 * 60 * 60
  /\ (/\ resp.route \in GuardedPaths
      /\ SignedByServer(resp.token)
      /\ ClockTimestamp(resp.at) >= resp.token.exp)
       => /\ resp.status = 403
          /\ resp.error = "Invalid token"
          /\ resp.user = NoUser
          /\ ~resp.ran

\* The wallet token was presented at the very second of its expiry.
C8_Witness ==
  /\ resp.route = PostInventoryRoute.path
  /\ resp.token = wallet["c1"]
  /\ resp.token.role = "farmer"
  /\ ClockTimestamp(resp.at) = resp.token.exp
  /\ resp.status = 403

\* C9: on every guarded route a request without a token gets 401, a request with a
\* malformed or wrongly signed token gets 403, and neither reaches the handler.
C9_MissingOrInvalidToken ==
  resp.route \in GuardedPaths =>
     /\ resp.token.fmt = "none"
          => resp.status = 401 /\ resp.error = "Access token required" /\ ~resp.ran
     /\ (resp.token.fmt = "garbage" \/ (resp.token.fmt = "jwt" /\ resp.token.sig # JWT_SECRET))
          => resp.status = 403 /\ resp.error = "Invalid token" /\ ~resp.ran
     /\ ~resp.ran => resp.order = NoOrder /\ resp.orders = <<>>

\* POST /api/orders was called without a token and stored nothing.
C9_Witness ==
  /\ resp.route = PostOrdersRoute.path
  /\ resp.token.fmt = "none"
  /\ resp.status = 401
  /\ demoOrders = <<>>

\* C10: on a role-gated route an authenticated request reaches the handler iff the
\* role of its identity is in the route's list; otherwise it gets 403 'Insufficient
\* permissions'.  A farmer is refused on GET /api/logistics/routes and served on
\* POST /api/inventory.
C10_RoleGuardFailsClosed ==
  (/\ resp.route \in GuardedPaths
   /\ RouteOf(resp.route).gated
   /\ SignedByServer(resp.token)
   /\ ClockTimestamp(resp.at) < resp.token.exp)
    => /\ resp.ran <=> resp.token.role \in RouteOf(resp.route).roles
       /\ ~resp.ran => resp.status = 403 /\ resp.error = "Insufficient permissions"
       /\ resp.token.role = "farmer"
            => (resp.ran <=> resp.route = PostInventoryRoute.path)

\* A farmer was refused on GET /api/logistics/routes.
C10_Witness ==
  /\ resp.route = LogisticsRoute.path
  /\ resp.token = wallet["c1"]
  /\ resp.token.role = "farmer"
  /\ resp.status = 403
  /\ resp.error = "Insufficient permissions"

\* C22: on a role-gated route the role guard's answer is only ever given to a request
\* whose token authenticateToken verified, for the identity of that token; a request
\* whose token is missing or rejected gets authenticateToken's answer, never the guard's.
C22_RoleCheckAfterAuthentication ==
  (resp.route \in GuardedPaths /\ RouteOf(resp.route).gated) =>
     LET a == authenticateToken(Header(2, resp.token), resp.at) IN
     /\ resp.error = "Insufficient permissions"
          => a.status = 0 /\ resp.user = a.user /\ resp.user.role = resp.token.role
     /\ a.status # 0
          => /\ resp.error \in {"Access token required", "Invalid token"}
             /\ resp.status = a.status
             /\ resp.user = NoUser
             /\ ~resp.ran

\* A customer's verified token was refused by the role guard of POST /api/inventory.
C22_Witness ==
  /\ resp.route = PostInventoryRoute.path
  /\ resp.token = wallet["c1"]
  /\ resp.user.role = "customer"
  /\ resp.error = "Insufficient permissions"

\* C23: at every time before its expiry the token a client holds is accepted by
\* authenticateToken, whatever logins, placements, 'order-update' messages, connects,
\* disconnects and job runs have happened since it was issued; a request that
\* presented it before its expiry was not turned away.
C23_UnexpiredTokenStaysValid ==
  \A c \in Clients :
     (wallet[c] # NoToken /\ ClockTimestamp(now) < wallet[c].exp) =>
        /\ authenticateToken(Header(2, wallet[c]), now).status = 0
        /\ (resp.token = wallet[c] /\ resp.route = GetOrdersRoute.path /\ resp.at = now)
              => resp.status = 200 /\ resp.ran

\* c1's token, issued before c2 logged in and before an order was placed and a job
\* broadcast, was accepted one tick after its issue.
C23_Witness ==
  /\ wallet["c1"].fmt = "jwt"
  /\ wallet["c2"].fmt = "jwt"
  /\ wallet["c1"].iat < wallet["c2"].iat
  /\ Len(demoOrders) = 1
  /\ jobs["price"].last = "finished"
  /\ ~conn["s1"].up
  /\ lastEmit.name = "order-status-update"
  /\ resp.route = GetOrdersRoute.path
  /\ resp.token = wallet["c1"]
  /\ resp.at = now
  /\ ClockTimestamp(now) > wallet["c1"].iat
  /\ resp.status = 200

StoredNumbers == {demoOrders[i].orderNumber : i \in 1..Len(demoOrders)}

\* C24: no step removes or replaces a stored order: the store only grows at its end,
\* and every order that was stored is still there, at its place, under its number.
C24_OrdersNeverDeleted ==
  [][/\ Len(demoOrders') >= Len(demoOrders)
     /\ \A i \in 1..Len(demoOrders) :
           /\ demoOrders'[i]._id = demoOrders[i]._id
           /\ demoOrders'[i].orderNumber = demoOrders[i].orderNumber]_vars

\* Two orders are stored, an 'order-update' asked to cancel the first one, the socket
\* that asked has disconnected, and the order is still in the store.
C24_Witness ==
  /\ Len(demoOrders) = 2
  /\ lastEmit.name = "order-status-update"
  /\ lastEmit.status = "cancelled"
  /\ lastEmit.orderNumber = demoOrders[1].orderNumber
  /\ ~conn["s1"].up

----
Connected == {s \in Sockets : conn[s].up}

BroadcastNames == {"news-update", "price-update", "weather-alert"}

\* C11: a sendNotification(userId, ...) is received by exactly the connected sockets
\* that are in room userId when it is published; a socket that is only in another
\* identity's room does not receive it.
C11_TargetedPublishReachesRoom ==
  [][(lastEmit' # lastEmit /\ lastEmit'.name = "notification")
       => lastEmit'.to = {s \in Sockets : conn[s].up /\ lastEmit'.room \in conn[s].rooms}]_vars

\* A notification reached s1 while s2 sat only in another identity's room.
C11_Witness ==
  /\ lastEmit.name = "notification"
  /\ lastEmit.room = "admin_user"
  /\ lastEmit.to = {"s1"}
  /\ conn["s2"].up
  /\ conn["s2"].rooms = {"demo_farmer"}

\* C12: a socket is in at most one identity's room at any time.
C12_AtMostOneRoom == \A s \in Sockets : Cardinality(conn[s].rooms) <= 1

\* C13: a socket that disconnects is in no room afterwards, and every event published
\* (targeted or broadcast) goes to connected sockets only.
C13_DisconnectedReceivesNothing ==
  [][/\ \A s \in Sockets : ~conn'[s].up => conn'[s].rooms = {}
     /\ lastEmit' # lastEmit => lastEmit'.to \subseteq Connected]_vars

\* s1 received a notification as a member of the room and has since disconnected.
C13_Witness ==
  /\ lastEmit.name = "notification"
  /\ "s1" \in lastEmit.to
  /\ ~conn["s1"].up
  /\ conn["s1"].rooms = {}

\* C14: a step in which a socket connects, joins a room or disconnects delivers
\* nothing: the receivers of the event published before it stay as they were.
C14_NoReplayToLateJoiner ==
  [][(\E s \in Sockets : conn'[s] # conn[s]) => lastEmit' = lastEmit]_vars

\* s2 joined the room after the notification was published and did not get it.
C14_Witness ==
  /\ lastEmit.name = "notification"
  /\ lastEmit.room = "admin_user"
  /\ conn["s2"].up
  /\ "admin_user" \in conn["s2"].rooms
  /\ "s2" \notin lastEmit.to

\* C15: the io.emit of the news, price and weather jobs is one event whose receivers
\* are all sockets connected when it is published, whatever rooms they are in.
C15_BroadcastReachesAllConnected ==
  [][(lastEmit' # lastEmit /\ lastEmit'.name \in BroadcastNames)
       => lastEmit'.room = Broadcast /\ lastEmit'.to = Connected]_vars

\* A price update reached a socket in no room and a socket in a room.
C15_Witness ==
  /\ lastEmit.name = "price-update"
  /\ lastEmit.to = Sockets
  /\ conn["s1"].rooms = {}
  /\ conn["s2"].rooms = {"demo_farmer"}

\* C16: whatever jobs have failed so far, the process is still running and every
\* job is still registered, so each job (the failed one included) can fire again.
C16_JobFailureIsContained ==
  /\ proc = "running"
  /\ \A j \in JobNames :
        /\ jobs[j].registered
        /\ IF jobs[j].due THEN ENABLED RunJob(j, FALSE) ELSE ENABLED TimerExpires(j)

\* The news job failed once, then ran again and broadcast; the price job's latest
\* run failed and the report ran after an e-mail failure it caught itself.
C16_Witness ==
  /\ jobs["news"].failures > 0
  /\ jobs["news"].last = "finished"
  /\ lastEmit.name = "news-update"
  /\ jobs["price"].last = "failed"
  /\ jobs["weather"].last = "failed"
  /\ jobs["report"].last = "finished"

\* The spec's transition applied to a timeline's statuses: an edge of the order graph
\* appends the status, anything else is rejected and leaves the timeline as it was.
ApplyTransition(statuses, st) ==
  IF Edge(statuses[Len(statuses)], st) THEN Append(statuses, st) ELSE statuses

SerialOutcomes(statuses, a, b) ==
  {ApplyTransition(ApplyTransition(statuses, a), b),
   ApplyTransition(ApplyTransition(statuses, b), a)}

TimelineStatuses(o) == [i \in 1..Len(o.timeline) |-> o.timeline[i].status]

\* C17: once two 'order-update' packets for the same stored order that were on the
\* wire together have both been handled, the order's timeline is what applying the
\* two transitions one after the other, in one of the two orders, gives to the
\* timeline the order was placed with, and its last entry is the order's status.
C17_ConcurrentTransitionsAreSerial ==
  (/\ Len(handled) = 2
   /\ handled[2].after = 0
   /\ handled[1].orderId = handled[2].orderId)
  => \A i \in StoredIndex(handled[1].orderId) :
        /\ TimelineStatuses(demoOrders[i])
              \in SerialOutcomes(<<"placed">>, handled[1].status, handled[2].status)
        /\ TimelineConsistent(demoOrders[i])

\* C18: an 'order-status-update' event is only ever emitted once some caller holds a
\* token issued by demo-login (sockets present no token, so this is the least the
\* claim asks for).
C18_UpdateNeedsAuthenticatedCaller ==
  lastEmit.name = "order-status-update" => \E c \in Clients : wallet[c] # NoToken

\* C19: every room a socket is in is the id of an identity a token was issued for.
C19_RoomsAreAuthenticatedIdentities ==
  \A s \in Sockets :
     conn[s].rooms \subseteq {wallet[c].userId : c \in {d \in Clients : wallet[d] # NoToken}}

\* The toggle .env.example gives a job (the daily report has none).
ToggleOf(j) ==
  CASE j = "news" -> "ENABLE_NEWS_UPDATES"
    [] j = "price" -> "ENABLE_PRICE_UPDATES"
    [] j = "weather" -> "ENABLE_WEATHER_UPDATES"

\* C21: a job whose toggle is set to 'false' has never fired, and a job whose toggle
\* is not off is registered, whatever the other toggles say.
C21_ToggledOffJobNeverFires ==
  \A j \in {"news", "price", "weather"} :
     IF env[ToggleOf(j)] = "false"
     THEN jobs[j].last = "never"
     ELSE jobs[j].registered

\* C25: every registered job is invoked again and again.
C25_EnabledJobFiresForever ==
  \A j \in JobNames :
     jobs[j].registered => []<><<\E fails \in BOOLEAN : RunJob(j, fails)>>_vars

\* The price job has run and its timer has expired again while the news job's first
\* callback is still waiting.
C25_Witness ==
  /\ jobs["price"].last = "finished"
  /\ jobs["price"].due
  /\ jobs["news"].due
  /\ jobs["news"].last = "never"

\* C20: a request whose handler ran answers 201 whether or not its notifier failed:
\* POST /api/leads has stored the lead, POST /api/inventory has answered 201.
C20_NotifierFailureKeepsRequest ==
  [][/\ (resp' # resp /\ resp'.ran /\ resp'.route = "POST /api/leads")
         => resp'.status = 201 /\ Len(demoLeads') = Len(demoLeads) + 1
     /\ (resp' # resp /\ resp'.ran /\ resp'.route = "POST /api/inventory")
         => resp'.status = 201]_vars

\* C27: a step that publishes an event (a notification, an 'order-status-update' or a
\* job's broadcast) leaves every socket's connection and rooms, the stored orders and
\* the stored leads as they were.
C27_PublishChangesNoState ==
  [][lastEmit' # lastEmit
       => conn' = conn /\ demoOrders' = demoOrders /\ demoLeads' = demoLeads]_vars

\* A notification was delivered to a room member who is still in the room, with an
\* order and a lead in store.
C27_Witness ==
  /\ lastEmit.name = "notification"
  /\ "s1" \in lastEmit.to
  /\ "admin_user" \in conn["s1"].rooms
  /\ Len(demoOrders) = 1
  /\ Len(demoLeads) = 1

\* C29: the notification of POST /api/inventory is addressed to room 'admin_user' and
\* received by members of that room only; a socket whose rooms are all rooms of
\* demo-login ids does not receive it.
C29_InventoryNotifiesAdminRoomOnly ==
  [][(lastEmit' # lastEmit /\ lastEmit'.name = "notification")
       => /\ lastEmit'.room = "admin_user"
          /\ \A s \in lastEmit'.to : "admin_user" \in conn[s].rooms
          /\ \A s \in Sockets : conn[s].rooms \subseteq DemoIds => s \notin lastEmit'.to]_vars

\* The notification reached s1 in 'admin_user' and not s2, which sits in the
\* submitting farmer's own room and in the admin's demo room.
C29_Witness ==
  /\ lastEmit.name = "notification"
  /\ lastEmit.to = {"s1"}
  /\ conn["s2"].up
  /\ conn["s2"].rooms = {"demo_farmer", "demo_admin"}

\* C30: two clients whose tokens carry the same role verify to the same identity id,
\* 'demo_' + role; once the socket of each has joined the room of its id, a
\* notification targeted at that id is received by both.
C30_SameRoleSharesIdentity ==
  \A c, d \in Clients :
     LET a == authenticateToken(Header(2, wallet[c]), now)
         b == authenticateToken(Header(2, wallet[d]), now) IN
     (a.status = 0 /\ b.status = 0 /\ wallet[c].role = wallet[d].role) =>
        /\ a.user.id = b.user.id
        /\ a.user.id = "demo_" \o wallet[c].role
        /\ (/\ conn[SocketOf(c)].up /\ wallet[c].userId \in conn[SocketOf(c)].rooms
            /\ conn[SocketOf(d)].up /\ wallet[d].userId \in conn[SocketOf(d)].rooms)
             => {SocketOf(c), SocketOf(d)}
                   \subseteq sendNotification(a.user.id, "m", now, conn).to

\* c1 and c2 logged in as farmers at different times and the socket of each joined
\* the room of its id: one room, 'demo_farmer', holds both.
C30_Witness ==
  /\ wallet["c1"].role = "farmer"
  /\ wallet["c2"].role = "farmer"
  /\ wallet["c1"].iat < wallet["c2"].iat
  /\ authenticateToken(Header(2, wallet["c1"]), now).status = 0
  /\ conn["s1"].up /\ conn["s1"].rooms = {"demo_farmer"}
  /\ conn["s2"].up /\ conn["s2"].rooms = {"demo_farmer"}
====
